---- MODULE Spec2Model ----
(***************************************************************************)
(* Model of kfac_jax/_src/utils/accumulators.py: WeightedMovingAverage and *)
(* MultiChunkAccumulator.                                                  *)
(*                                                                         *)
(* Numbers.  Arithmetic is exact (floating point rounding is not           *)
(* modelled).  A weight w is stored as the integer w * Scale, so that the  *)
(* fractional weight 1/Scale is representable; a leaf of a value tree is a *)
(* plain integer, and a leaf of accumulator / raw_value (a sum of          *)
(* leaf * weight) is therefore again in units of 1/Scale.  A quotient      *)
(* leaf / weight is a normalised fraction [n, d]; d = 0 encodes the IEEE   *)
(* results of a division by zero (NaN, +Inf, -Inf).                        *)
(*                                                                         *)
(* Trees.  A PyTree is the record [none, leaves]: none = TRUE is Python's  *)
(* None, otherwise leaves is the sequence of its leaves (<<>> is a         *)
(* structurally empty container).  Two trees have the same structure iff   *)
(* they have the same number of leaves.                                    *)
(***************************************************************************)
EXTENDS Integers, Sequences, FiniteSets, TLC

\* Denominator of the stored weights (1/Scale is the smallest fraction).
Scale == 2

\* Longest sequence of calls made on one object.
MaxCalls == 3

\* Number of replicas (local devices) of a multi-device computation.
NumDevices == 2

VARIABLES
  accumulator,  \* MultiChunkAccumulator._accumulator
  weight,       \* MultiChunkAccumulator._weight
  multi_device, \* MultiChunkAccumulator._multi_device
  raw_value,    \* WeightedMovingAverage.raw_value
  wma_weight,   \* WeightedMovingAverage.weight
  ctor,         \* how the MultiChunkAccumulator was constructed
  calls,        \* the calls made since construction, with their outcome
  syncs,        \* calls of parallel.*_sync_and_divide_value made so far
  heap,         \* the instances of the copy scenario, by object identity
  cp            \* the identity of the copy in heap (0: no copy made)

vars == <<accumulator, weight, multi_device, raw_value, wma_weight, ctor, calls,
          syncs, heap, cp>>

-----------------------------------------------------------------------------
\* Exact arithmetic.

Abs(x) == IF x < 0 THEN -x ELSE x

RECURSIVE GCD(_, _)
GCD(a, b) == IF b = 0 THEN a ELSE GCD(b, a % b)

\* x / y as jnp computes it on floats, up to rounding.
Div(x, y) ==
  IF y = 0
    THEN [n |-> IF x > 0 THEN 1 ELSE IF x < 0 THEN -1 ELSE 0, d |-> 0]
    ELSE LET g == GCD(Abs(x), Abs(y))
             s == IF y < 0 THEN -1 ELSE 1
         IN  [n |-> s * (x \div g), d |-> s * (y \div g)]

\* The number v (a leaf of a value tree) as a quotient.
Num(v) == [n |-> v, d |-> 1]

\* Conversion of the stored number x to an integer dtype: truncation
\* towards zero.
TruncToInt(x) ==
  IF x >= 0 THEN (x \div Scale) * Scale ELSE -(((-x) \div Scale) * Scale)

-----------------------------------------------------------------------------
\* PyTrees.

NoneTree == [none |-> TRUE, leaves |-> <<>>]

Tree(ls) == [none |-> FALSE, leaves |-> ls]

\* types.tree_is_empty: a tree without leaves; None has no leaves.
TreeIsEmpty(t) == Len(t.leaves) = 0

\* jax.tree_util.tree_map(f, t) with f(x) = x * k; None maps to None.
TreeScale(t, k) ==
  [none |-> t.none, leaves |-> [i \in DOMAIN t.leaves |-> t.leaves[i] * k]]

SameStructure(s, t) == s.none = t.none /\ Len(s.leaves) = Len(t.leaves)

\* jax.tree_util.tree_map(jnp.add, s, t), for s and t of one structure.
TreeAdd(s, t) ==
  [none |-> s.none, leaves |-> [i \in DOMAIN s.leaves |-> s.leaves[i] + t.leaves[i]]]

\* jax.tree_util.tree_map(lambda x: x / w, t)
TreeDiv(t, w) ==
  [none |-> t.none, leaves |-> [i \in DOMAIN t.leaves |-> Div(t.leaves[i], w)]]

\* The tree of quotients that equals the value tree t exactly.
TreeNum(t) ==
  [none |-> t.none, leaves |-> [i \in DOMAIN t.leaves |-> Num(t.leaves[i])]]

-----------------------------------------------------------------------------
\* Weights.  A stored weight is None or an array of rank 0 with a dtype; an
\* argument weight also has a Python type (kind) and, for arrays, a rank.

NoneWeight == [none |-> TRUE, dt |-> "none", rank |-> 0, x |-> 0]

ArrayWeight(dt, rank, x) == [none |-> FALSE, dt |-> dt, rank |-> rank, x |-> x]

PyInt(k) == [kind |-> "int", dt |-> "int32", rank |-> 0, x |-> k * Scale]

PyFloat(x) == [kind |-> "float", dt |-> "float32", rank |-> 0, x |-> x]

JaxArray(dt, rank, x) == [kind |-> "jax.Array", dt |-> dt, rank |-> rank, x |-> x]

NumpyFloat(x) == [kind |-> "numpy.float32", dt |-> "float32", rank |-> 0, x |-> x]

\* types.CHEX_SCALAR_TYPES = (float, int)
CHEX_SCALAR_TYPES == {"int", "float"}

\* jnp.full_like(a, fill): shape and dtype of a, every element fill
\* converted to that dtype.
FullLike(a, fill) ==
  ArrayWeight(a.dt, a.rank, IF a.dt = "int32" THEN TruncToInt(fill.x) ELSE fill.x)

\* a + w under JAX type promotion and broadcasting: the sum is an integer
\* array only if both operands are integers, and has the larger rank.
WeightPlus(a, w) ==
  ArrayWeight(IF a.dt = "int32" /\ w.dt = "int32" THEN "int32" ELSE "float32",
              IF a.rank > w.rank THEN a.rank ELSE w.rank,
              a.x + w.x)

-----------------------------------------------------------------------------
\* MultiChunkAccumulator, as operators on the object state
\* self = [accumulator, weight].  An operation yields the state it leaves
\* behind, the exception it raised ("" when it returned) and, for value,
\* the tree it returned.

\* A single-stream instance.
Self(a, w) == [accumulator |-> a, weight |-> w, multi_device |-> FALSE]

\* An instance with its multi_device flag.
Instance(a, w, md) == [accumulator |-> a, weight |-> w, multi_device |-> md]

Outcome(a, w, exc) == [accumulator |-> a, weight |-> w, exc |-> exc]

\* parallel.jit_sync_and_divide_value(accumulator, weight): in a single
\* stream the synchronisation is a no-op and the result is the quotient.
jit_sync_and_divide_value(acc, w) == TreeDiv(acc, w.x)

\* In a multi-device instance every leaf, and the weight, is an array with a
\* leading device axis: a function on Devices.
Devices == 1..NumDevices

RECURSIVE SumOver(_, _)
SumOver(f, S) ==
  IF S = {} THEN 0 ELSE LET d == CHOOSE e \in S : TRUE IN f[d] + SumOver(f, S \ {d})

\* The cross-replica mean of a per-device number, as a quotient.
pmean(f) == Div(SumOver(f, Devices), NumDevices)

\* p / q for quotients p and q with non-zero denominators.
QuotientDiv(p, q) == Div(p.n * q.d, p.d * q.n)

\* parallel.pmap_sync_and_divide_value(accumulator, weight): every replica
\* gets the cross-replica mean of accumulator over that of weight.
pmap_sync_and_divide_value(acc, w) ==
  [none |-> acc.none,
   leaves |-> [i \in DOMAIN acc.leaves |->
                 [d \in Devices |-> QuotientDiv(pmean(acc.leaves[i]), pmean(w.x))]]]

\* The outcome of value: the state left, the tree returned, the exception
\* raised and the number of calls of a sync_and_divide_value function made.
Read(self, ret, exc, n) ==
  [accumulator |-> self.accumulator, weight |-> self.weight,
   multi_device |-> self.multi_device, ret |-> ret, exc |-> exc, syncs |-> n]

\* value that resets the instance after computing its result.
MCA_value_resetting(self) ==
  LET cleared == Instance(NoneTree, NoneWeight, self.multi_device)
  IN
  IF TreeIsEmpty(self.accumulator)
    THEN Read(cleared, self.accumulator, "", 0)
  ELSE IF self.weight.none
    THEN Read(cleared, NoneTree, "TypeError", 1)
  ELSE IF self.multi_device
    THEN Read(cleared, pmap_sync_and_divide_value(self.accumulator, self.weight), "", 1)
  ELSE Read(cleared, jit_sync_and_divide_value(self.accumulator, self.weight), "", 1)

\* value whose early return does not cover None.
MCA_value_dividing_unstarted(self) ==
  IF ~self.accumulator.none /\ TreeIsEmpty(self.accumulator)
    THEN Read(self, self.accumulator, "", 0)
  ELSE IF self.weight.none
    THEN Read(self, NoneTree, "TypeError", 1)
  ELSE IF self.multi_device
    THEN Read(self, pmap_sync_and_divide_value(self.accumulator, self.weight), "", 1)
  ELSE Read(self, jit_sync_and_divide_value(self.accumulator, self.weight), "", 1)

\* MultiChunkAccumulator.value
MCA_value(self) ==
  IF TreeIsEmpty(self.accumulator)
    THEN Read(self, self.accumulator, "", 0)
  ELSE IF self.weight.none
    THEN Read(self, NoneTree, "TypeError", 1)
  ELSE IF self.multi_device
    THEN Read(self, pmap_sync_and_divide_value(self.accumulator, self.weight), "", 1)
  ELSE Read(self, jit_sync_and_divide_value(self.accumulator, self.weight), "", 1)

\* MultiChunkAccumulator.clear
MCA_clear(self) == Outcome(NoneTree, NoneWeight, "")

\* MultiChunkAccumulator.add.  The assignments made before a raise stay.
MCA_add(self, value_obj, w) ==
  LET scaled == TreeScale(value_obj, w.x)
  IN
  IF self.accumulator.none
    THEN \* self._accumulator = value_obj comes first
      IF w.kind \in CHEX_SCALAR_TYPES
        THEN IF self.weight.none
               THEN \* jnp.full_like(None, weight) rejects None
                    Outcome(scaled, self.weight, "TypeError")
               ELSE Outcome(scaled, FullLike(self.weight, w), "")
      ELSE IF w.kind # "jax.Array"
        THEN Outcome(scaled, self.weight, "ValueError: weight type")
      ELSE IF self.weight.none
        THEN \* None has no attribute shape
             Outcome(scaled, self.weight, "AttributeError")
      ELSE IF self.weight.rank # w.rank
        THEN Outcome(scaled, self.weight, "ValueError: weight shape")
      ELSE Outcome(scaled, ArrayWeight(w.dt, w.rank, w.x), "")
  ELSE IF ~TreeIsEmpty(self.accumulator) /\ TreeIsEmpty(scaled)
    THEN Outcome(self.accumulator, self.weight, "ValueError: empty value_obj")
  ELSE IF TreeIsEmpty(self.accumulator) /\ ~TreeIsEmpty(scaled)
    THEN Outcome(self.accumulator, self.weight, "ValueError: non-empty value_obj")
  ELSE
    LET acc1 == IF TreeIsEmpty(self.accumulator)
                  THEN self.accumulator
                  ELSE TreeAdd(self.accumulator, scaled)
    IN  IF self.weight.none
          THEN \* None + weight
               Outcome(acc1, self.weight, "TypeError")
          ELSE Outcome(acc1, WeightPlus(self.weight, w), "")

\* Replica d of a tree, of a stored weight and of an argument weight (a Python
\* number or an array of shape () is the same on every replica).
SliceTree(t, d) ==
  [none |-> t.none, leaves |-> [i \in DOMAIN t.leaves |-> t.leaves[i][d]]]

SliceWeight(w, d) == IF w.none THEN w ELSE [w EXCEPT !.x = w.x[d]]

SliceArg(w, d) == IF w.rank = 0 THEN w ELSE [w EXCEPT !.x = w.x[d]]

\* The tree and the stored weight whose replica d is ts[d] and ws[d].
JoinTree(ts) ==
  [none |-> ts[1].none,
   leaves |-> [i \in DOMAIN ts[1].leaves |-> [d \in Devices |-> ts[d].leaves[i]]]]

JoinWeight(ws) ==
  IF ws[1].none THEN NoneWeight ELSE [ws[1] EXCEPT !.x = [d \in Devices |-> ws[d].x]]

\* add that combines the weights across the replicas at every call: each
\* replica's weight becomes the total over the replicas.
MCA_add_synced(self, value_obj, w) ==
  LET r == [d \in Devices |->
              MCA_add(Self(SliceTree(self.accumulator, d), SliceWeight(self.weight, d)),
                      SliceTree(value_obj, d), SliceArg(w, d))]
      total == SumOver([d \in Devices |-> r[d].weight.x], Devices)
  IN  Outcome(JoinTree([d \in Devices |-> r[d].accumulator]),
              JoinWeight([d \in Devices |-> [r[d].weight EXCEPT !.x = total]]),
              r[1].exc)

\* MultiChunkAccumulator.add on arrays with a device axis: the same code,
\* whose array operations act on every replica's slice separately.
MCA_add_multi_device(self, value_obj, w) ==
  LET r == [d \in Devices |->
              MCA_add(Self(SliceTree(self.accumulator, d), SliceWeight(self.weight, d)),
                      SliceTree(value_obj, d), SliceArg(w, d))]
  IN  Outcome(JoinTree([d \in Devices |-> r[d].accumulator]),
              JoinWeight([d \in Devices |-> r[d].weight]),
              r[1].exc)

\* parallel.replicate_all_local_devices(x): x on every device.
replicate_all_local_devices(x) == [d \in Devices |-> x]

\* parallel.pmap_zeros_like(obj)
pmap_zeros_like(obj) ==
  [none |-> obj.none,
   leaves |-> [i \in DOMAIN obj.leaves |-> replicate_all_local_devices(0)]]

\* MultiChunkAccumulator.empty(multi_device=True)
MCA_empty_multi_device ==
  Instance(NoneTree, ArrayWeight("int32", 1, replicate_all_local_devices(0)), TRUE)

\* MultiChunkAccumulator.zeros_like(obj, multi_device=True)
MCA_zeros_like_multi_device(obj) ==
  Instance(IF ~TreeIsEmpty(obj) THEN pmap_zeros_like(obj) ELSE obj,
           ArrayWeight("int32", 1, replicate_all_local_devices(0)), TRUE)

\* MultiChunkAccumulator.empty(multi_device=False)
MCA_empty == Self(NoneTree, ArrayWeight("int32", 0, 0))

\* zeros_like with a weight of one sample.
MCA_zeros_like_unit_weight(obj) ==
  Self(IF ~TreeIsEmpty(obj) THEN TreeScale(obj, 0) ELSE obj,
       ArrayWeight("int32", 0, Scale))

\* MultiChunkAccumulator.zeros_like(obj, multi_device=False)
MCA_zeros_like(obj) ==
  Self(IF ~TreeIsEmpty(obj) THEN TreeScale(obj, 0) ELSE obj,
       ArrayWeight("int32", 0, 0))

\* MultiChunkAccumulator(init_obj_value, weight, multi_device=False)
MCA_init(init_obj_value, w) == Self(init_obj_value, w)

\* The flattening registered for MultiChunkAccumulator: the children
\* (accumulator, weight) and the auxiliary data (multi_device,).
MCA_flatten(x) ==
  [children |-> <<x.accumulator, x.weight>>, aux |-> <<x.multi_device>>]

\* The unflattening: MultiChunkAccumulator(*arrays, *fixed), a new instance.
MCA_unflatten(fixed, arrays) == Instance(arrays[1], arrays[2], fixed[1])

\* copy that hands back the instance it was called on.
MCA_copy_aliasing(h, id) == [heap |-> h, ref |-> id]

\* MultiChunkAccumulator.copy on the instance id of the heap h: the heap with
\* the new instance, and its identity.
MCA_copy(h, id) ==
  LET f == MCA_flatten(h[id])
  IN  [heap |-> Append(h, MCA_unflatten(f.aux, f.children)), ref |-> Len(h) + 1]

-----------------------------------------------------------------------------
\* WeightedMovingAverage, as operators on self = [raw_value, weight].

\* WeightedMovingAverage.copy on the instance id of the heap h: a new
\* instance of the fields weight and raw_value.
WMA_copy(h, id) ==
  [heap |-> Append(h, [raw_value |-> h[id].raw_value, weight |-> h[id].weight]),
   ref |-> Len(h) + 1]

\* WeightedMovingAverage.value
WMA_value(self) == TreeDiv(self.raw_value, self.weight)

\* update with the decay left out of raw_value (raw_value + value * new_weight).
WMA_update_undecayed_value(self, val, old_weight_multiplier, new_weight) ==
  LET w1 == self.weight * old_weight_multiplier + new_weight
  IN  IF ~SameStructure(self.raw_value, val)
        THEN [raw_value |-> self.raw_value, weight |-> w1, exc |-> "ValueError"]
        ELSE [raw_value |-> TreeAdd(self.raw_value, TreeScale(val, new_weight)),
              weight |-> w1, exc |-> ""]

\* update with the decay left out of weight (weight + new_weight).
WMA_update_undecayed_weight(self, val, old_weight_multiplier, new_weight) ==
  LET w1 == self.weight + new_weight
  IN  IF ~SameStructure(self.raw_value, val)
        THEN [raw_value |-> self.raw_value, weight |-> w1, exc |-> "ValueError"]
        ELSE [raw_value |-> TreeAdd(TreeScale(self.raw_value, old_weight_multiplier),
                                    TreeScale(val, new_weight)),
              weight |-> w1, exc |-> ""]

\* WeightedMovingAverage.update.  weight is assigned before tree_map runs;
\* tree_map raises on trees of different structure.
WMA_update(self, val, old_weight_multiplier, new_weight) ==
  LET w1 == self.weight * old_weight_multiplier + new_weight
  IN  IF ~SameStructure(self.raw_value, val)
        THEN [raw_value |-> self.raw_value, weight |-> w1, exc |-> "ValueError"]
        ELSE [raw_value |-> TreeAdd(TreeScale(self.raw_value, old_weight_multiplier),
                                    TreeScale(val, new_weight)),
              weight |-> w1, exc |-> ""]

\* WeightedMovingAverage.zero(shape)
WMA_zero == [raw_value |-> Tree(<<0>>), weight |-> 0]

\* WeightedMovingAverage.zeros_like(value)
WMA_zeros_like(val) == [raw_value |-> TreeScale(val, 0), weight |-> 0]

-----------------------------------------------------------------------------
\* The arguments the callers pass.

\* Leaves of the value trees (the statistics of one chunk).
LeafValues == {1, 3}

\* value_obj of add: the accumulated tree type, empty or with its leaf.
ValueObjs == {Tree(<<>>)} \cup {Tree(<<x>>) : x \in LeafValues}

\* weight of add: the ints 1 and 2, the float 1/Scale, a float32 jax.Array
\* holding 1.0 of shape () and of shape (1,), and a numpy.float32 holding 1.0.
Weights ==
  {PyInt(1), PyInt(2), PyFloat(1), JaxArray("float32", 0, Scale),
   JaxArray("float32", 1, Scale), NumpyFloat(Scale)}

\* value of update: trees of the structure of raw_value, and one of another.
UpdateValues == {Tree(<<x>>) : x \in LeafValues} \cup {Tree(<<1, 3>>)}

\* old_weight_multiplier of update.
Multipliers == {0, 1, 2}

\* new_weight of update: 0, 1/Scale and 1.
NewWeights == {0, 1, Scale}

\* The ways the accumulator is constructed.
Constructors ==
  {[name |-> "empty", obj |-> NoneTree, seed |-> ArrayWeight("int32", 0, 0)],
   [name |-> "zeros_like", obj |-> Tree(<<>>), seed |-> ArrayWeight("int32", 0, 0)],
   [name |-> "zeros_like", obj |-> Tree(<<1>>), seed |-> ArrayWeight("int32", 0, 0)],
   [name |-> "__init__", obj |-> NoneTree, seed |-> ArrayWeight("float32", 0, Scale)],
   [name |-> "__init__", obj |-> Tree(<<3 * Scale>>), seed |-> ArrayWeight("float32", 0, Scale)]}

Construct(c) ==
  IF c.name = "empty" THEN MCA_empty
  ELSE IF c.name = "zeros_like" THEN MCA_zeros_like(c.obj)
  ELSE MCA_init(c.obj, c.seed)

\* One entry of the call log.
Call(op, value_obj, w, m, exc, ret) ==
  [op |-> op, value_obj |-> value_obj, w |-> w, m |-> m, exc |-> exc, ret |-> ret,
   on |-> 1]

\* A call made on the instance with identity id.
CallOn(id, op, value_obj, w, m, exc, ret) ==
  [Call(op, value_obj, w, m, exc, ret) EXCEPT !.on = id]

\* Per-device leaves and weights: the same on every device, and different.
Uniform(x) == [d \in Devices |-> x]

Varying(x, y) == [d \in Devices |-> IF d = 1 THEN x ELSE y]

\* value_obj of add on a multi-device accumulator.
ValueObjsMD == {Tree(<<>>), Tree(<<Uniform(1)>>), Tree(<<Varying(1, 3)>>)}

\* weight of add on a multi-device accumulator: the int 1, the float 1/Scale,
\* float32 arrays with a device axis (1.0 everywhere; 1.0 and 0.5) and a
\* float32 array of shape ().
WeightsMD ==
  <<PyInt(1), PyFloat(1), JaxArray("float32", 1, Uniform(Scale)),
    JaxArray("float32", 1, Varying(Scale, 1)), JaxArray("float32", 0, Scale)>>

\* The ways a multi-device accumulator is constructed.
ConstructorsMD ==
  {[name |-> "empty", obj |-> NoneTree,
    seed |-> ArrayWeight("int32", 1, Uniform(0))],
   [name |-> "zeros_like", obj |-> Tree(<<>>),
    seed |-> ArrayWeight("int32", 1, Uniform(0))],
   [name |-> "zeros_like", obj |-> Tree(<<Uniform(1)>>),
    seed |-> ArrayWeight("int32", 1, Uniform(0))],
   [name |-> "__init__", obj |-> Tree(<<Varying(3 * Scale, 1)>>),
    seed |-> ArrayWeight("float32", 1, Varying(Scale, 1))]}

ConstructMD(c) ==
  IF c.name = "empty" THEN MCA_empty_multi_device
  ELSE IF c.name = "zeros_like" THEN MCA_zeros_like_multi_device(c.obj)
  ELSE Instance(c.obj, c.seed, TRUE)

mcaVars == <<accumulator, weight, multi_device, ctor>>

copyVars == <<heap, cp>>

\* The object under test, as the methods see it.
This == Instance(accumulator, weight, multi_device)

wmaVars == <<raw_value, wma_weight>>

-----------------------------------------------------------------------------
\* The accumulator alone.

Init ==
  /\ ctor \in Constructors
  /\ accumulator = Construct(ctor).accumulator
  /\ weight = Construct(ctor).weight
  /\ multi_device = Construct(ctor).multi_device
  /\ raw_value = WMA_zero.raw_value
  /\ wma_weight = WMA_zero.weight
  /\ calls = <<>>
  /\ syncs = 0
  /\ heap = <<>>
  /\ cp = 0

\* accumulator.add(value_obj, w)
Add ==
  /\ Len(calls) < MaxCalls
  /\ ~multi_device
  /\ \E value_obj \in ValueObjs, w \in Weights :
       LET r == MCA_add(This, value_obj, w)
       IN  /\ accumulator' = r.accumulator
           /\ weight' = r.weight
           /\ calls' = Append(calls, Call("add", value_obj, w, 0, r.exc, NoneTree))
  /\ UNCHANGED <<multi_device, ctor, syncs, wmaVars, copyVars>>

\* accumulator.value
Value ==
  /\ Len(calls) < MaxCalls
  /\ LET r == MCA_value(This)
     IN  /\ accumulator' = r.accumulator
         /\ weight' = r.weight
         /\ multi_device' = r.multi_device
         /\ syncs' = syncs + r.syncs
         /\ calls' = Append(calls, Call("value", NoneTree, PyInt(0), 0, r.exc, r.ret))
  /\ UNCHANGED <<ctor, wmaVars, copyVars>>

\* accumulator.clear()
Clear ==
  /\ Len(calls) < MaxCalls
  /\ LET r == MCA_clear(This)
     IN  /\ accumulator' = r.accumulator
         /\ weight' = r.weight
         /\ calls' = Append(calls, Call("clear", NoneTree, PyInt(0), 0, r.exc, NoneTree))
  /\ UNCHANGED <<multi_device, ctor, syncs, wmaVars, copyVars>>

\* accumulator.value_and_clear(): clear runs only if value returned.
ValueAndClear ==
  /\ Len(calls) < MaxCalls
  /\ LET v == MCA_value(This)
         r == IF v.exc = ""
                THEN MCA_clear(Instance(v.accumulator, v.weight, v.multi_device))
                ELSE Outcome(v.accumulator, v.weight, v.exc)
     IN  /\ accumulator' = r.accumulator
         /\ weight' = r.weight
         /\ multi_device' = v.multi_device
         /\ syncs' = syncs + v.syncs
         /\ calls' = Append(calls,
                        Call("value_and_clear", NoneTree, PyInt(0), 0, v.exc, v.ret))
  /\ UNCHANGED <<ctor, wmaVars, copyVars>>

Next == Add \/ Value \/ Clear \/ ValueAndClear

Spec == Init /\ [][Next]_vars

-----------------------------------------------------------------------------
\* The accumulator of a multi-device computation.

InitMD ==
  /\ ctor \in ConstructorsMD
  /\ accumulator = ConstructMD(ctor).accumulator
  /\ weight = ConstructMD(ctor).weight
  /\ multi_device = ConstructMD(ctor).multi_device
  /\ raw_value = WMA_zero.raw_value
  /\ wma_weight = WMA_zero.weight
  /\ calls = <<>>
  /\ syncs = 0
  /\ heap = <<>>
  /\ cp = 0

\* accumulator.add(value_obj, w) with per-device arrays
AddMD ==
  /\ Len(calls) < MaxCalls
  /\ multi_device
  /\ \E value_obj \in ValueObjsMD, k \in DOMAIN WeightsMD :
       LET w == WeightsMD[k]
           r == MCA_add_multi_device(This, value_obj, w)
       IN  /\ accumulator' = r.accumulator
           /\ weight' = r.weight
           /\ calls' = Append(calls, Call("add", value_obj, w, 0, r.exc, NoneTree))
  /\ UNCHANGED <<multi_device, ctor, syncs, wmaVars, copyVars>>

NextMD == AddMD \/ Value \/ Clear \/ ValueAndClear

SpecMD == InitMD /\ [][NextMD]_vars

-----------------------------------------------------------------------------
\* The accumulator in either mode.

InitAny == Init \/ InitMD

NextAny == Add \/ AddMD \/ Value \/ Clear \/ ValueAndClear

SpecAny == InitAny /\ [][NextAny]_vars

-----------------------------------------------------------------------------
\* The moving average alone.

InitWMA ==
  /\ ctor = [name |-> "empty", obj |-> NoneTree, seed |-> ArrayWeight("int32", 0, 0)]
  /\ accumulator = MCA_empty.accumulator
  /\ weight = MCA_empty.weight
  /\ multi_device = MCA_empty.multi_device
  /\ syncs = 0
  /\ heap = <<>>
  /\ cp = 0
  /\ \E z \in {WMA_zero, WMA_zeros_like(Tree(<<1, 3>>))} :
       raw_value = z.raw_value /\ wma_weight = z.weight
  /\ calls = <<>>

\* average.update(val, m, w)
Update ==
  /\ Len(calls) < MaxCalls
  /\ \E val \in UpdateValues, m \in Multipliers, w \in NewWeights :
       LET r == WMA_update([raw_value |-> raw_value, weight |-> wma_weight], val, m, w)
       IN  /\ raw_value' = r.raw_value
           /\ wma_weight' = r.weight
           /\ calls' = Append(calls, Call("update", val, PyFloat(w), m, r.exc, NoneTree))
  /\ UNCHANGED <<mcaVars, syncs, copyVars>>

\* average.value
ReadValue ==
  /\ Len(calls) < MaxCalls
  /\ calls' = Append(calls,
                Call("wma.value", NoneTree, PyInt(0), 0, "",
                     WMA_value([raw_value |-> raw_value, weight |-> wma_weight])))
  /\ UNCHANGED <<mcaVars, wmaVars, syncs, copyVars>>

NextWMA == Update \/ ReadValue

SpecWMA == InitWMA /\ [][NextWMA]_vars

-----------------------------------------------------------------------------
\* A moving average and an accumulator fed the same statistics:
\* average.update(v, 1, w) and accumulator.add(v, w) for Python numbers w.

CommonWeights == {PyInt(1), PyInt(2), PyFloat(1)}

InitBoth ==
  /\ \E ref \in {Tree(<<x>>) : x \in LeafValues} :
       /\ ctor \in {c \in Constructors :
                      \/ c.name = "empty"
                      \/ c.name = "zeros_like" /\ SameStructure(c.obj, ref)}
       /\ raw_value = WMA_zeros_like(ref).raw_value
       /\ wma_weight = WMA_zeros_like(ref).weight
  /\ accumulator = Construct(ctor).accumulator
  /\ weight = Construct(ctor).weight
  /\ multi_device = Construct(ctor).multi_device
  /\ calls = <<>>
  /\ syncs = 0
  /\ heap = <<>>
  /\ cp = 0

UpdateAndAdd ==
  /\ Len(calls) < MaxCalls
  /\ \E v \in {Tree(<<x>>) : x \in LeafValues}, w \in CommonWeights :
       LET u == WMA_update([raw_value |-> raw_value, weight |-> wma_weight], v, 1, w.x)
           r == MCA_add(This, v, w)
       IN  /\ raw_value' = u.raw_value
           /\ wma_weight' = u.weight
           /\ accumulator' = r.accumulator
           /\ weight' = r.weight
           /\ calls' = Append(calls, Call("update+add", v, w, 1, r.exc, NoneTree))
  /\ UNCHANGED <<multi_device, ctor, syncs, copyVars>>

NextBoth == UpdateAndAdd

SpecBoth == InitBoth /\ [][NextBoth]_vars

-----------------------------------------------------------------------------
\* An instance and its copy.  heap[1] is the original, heap[cp] the copy once
\* copy was called; every call is made on one of the two.

IsMCA(o) == "accumulator" \in DOMAIN o

\* The instances copied: accumulators of both modes and moving averages.
Originals ==
  <<MCA_empty, MCA_zeros_like(Tree(<<1>>)),
    MCA_init(Tree(<<3 * Scale>>), ArrayWeight("float32", 0, Scale)),
    MCA_empty_multi_device, MCA_zeros_like_multi_device(Tree(<<Uniform(1)>>)),
    WMA_zero, WMA_zeros_like(Tree(<<1, 3>>))>>

\* The instances a call can be made on.
Targets == {1} \cup (IF cp = 0 THEN {} ELSE {cp})

InitCopy ==
  /\ ctor = [name |-> "empty", obj |-> NoneTree, seed |-> ArrayWeight("int32", 0, 0)]
  /\ accumulator = MCA_empty.accumulator
  /\ weight = MCA_empty.weight
  /\ multi_device = MCA_empty.multi_device
  /\ raw_value = WMA_zero.raw_value
  /\ wma_weight = WMA_zero.weight
  /\ calls = <<>>
  /\ syncs = 0
  /\ \E k \in DOMAIN Originals : heap = <<Originals[k]>>
  /\ cp = 0

\* c = original.copy()
Copy ==
  /\ Len(calls) < MaxCalls
  /\ cp = 0
  /\ LET r == IF IsMCA(heap[1]) THEN MCA_copy(heap, 1) ELSE WMA_copy(heap, 1)
     IN  /\ heap' = r.heap
         /\ cp' = r.ref
  /\ calls' = Append(calls, Call("copy", NoneTree, PyInt(0), 0, "", NoneTree))
  /\ UNCHANGED <<mcaVars, wmaVars, syncs>>

\* add(value_obj, 1) on the original or on the copy
AddOn ==
  /\ Len(calls) < MaxCalls
  /\ \E t \in Targets :
       /\ IsMCA(heap[t])
       /\ LET self == heap[t]
              value_obj == IF self.multi_device THEN Tree(<<Uniform(1)>>) ELSE Tree(<<1>>)
              r == IF self.multi_device
                     THEN MCA_add_multi_device(self, value_obj, PyInt(1))
                     ELSE MCA_add(self, value_obj, PyInt(1))
          IN  /\ heap' = [heap EXCEPT
                            ![t] = Instance(r.accumulator, r.weight, self.multi_device)]
              /\ calls' = Append(calls,
                             CallOn(t, "add", value_obj, PyInt(1), 0, r.exc, NoneTree))
  /\ UNCHANGED <<mcaVars, wmaVars, syncs, cp>>

\* clear() on the original or on the copy
ClearOn ==
  /\ Len(calls) < MaxCalls
  /\ \E t \in Targets :
       /\ IsMCA(heap[t])
       /\ LET self == heap[t]
              r == MCA_clear(self)
          IN  /\ heap' = [heap EXCEPT
                            ![t] = Instance(r.accumulator, r.weight, self.multi_device)]
              /\ calls' = Append(calls,
                             CallOn(t, "clear", NoneTree, PyInt(0), 0, r.exc, NoneTree))
  /\ UNCHANGED <<mcaVars, wmaVars, syncs, cp>>

\* value_and_clear() on the original or on the copy
ValueAndClearOn ==
  /\ Len(calls) < MaxCalls
  /\ \E t \in Targets :
       /\ IsMCA(heap[t])
       /\ LET v == MCA_value(heap[t])
              r == IF v.exc = ""
                     THEN MCA_clear(Instance(v.accumulator, v.weight, v.multi_device))
                     ELSE Outcome(v.accumulator, v.weight, v.exc)
          IN  /\ heap' = [heap EXCEPT
                            ![t] = Instance(r.accumulator, r.weight, v.multi_device)]
              /\ syncs' = syncs + v.syncs
              /\ calls' = Append(calls,
                             CallOn(t, "value_and_clear", NoneTree, PyInt(0), 0,
                                    v.exc, v.ret))
  /\ UNCHANGED <<mcaVars, wmaVars, cp>>

\* update(val, m, 1) on the original or on the copy
UpdateOn ==
  /\ Len(calls) < MaxCalls
  /\ \E t \in Targets, val \in {Tree(<<3>>), Tree(<<1, 3>>)}, m \in {0, 2} :
       /\ ~IsMCA(heap[t])
       /\ LET r == WMA_update(heap[t], val, m, Scale)
          IN  /\ heap' = [heap EXCEPT
                            ![t] = [raw_value |-> r.raw_value, weight |-> r.weight]]
              /\ calls' = Append(calls,
                             CallOn(t, "update", val, PyFloat(Scale), m, r.exc, NoneTree))
  /\ UNCHANGED <<mcaVars, wmaVars, syncs, cp>>

NextCopy == Copy \/ AddOn \/ ClearOn \/ ValueAndClearOn \/ UpdateOn

SpecCopy == InitCopy /\ [][NextCopy]_vars

-----------------------------------------------------------------------------
\* Vocabulary of the properties.

LastCall == calls[Len(calls)]

\* This step is a call of op (every call appends one entry to the log).
Called(op) == Len(calls') = Len(calls) + 1 /\ LastCall'.op = op

Returned(c) == c.exc = ""

\* Every call so far was an add that returned.
OnlyAddsReturned ==
  \A k \in 1..Len(calls) : calls[k].op = "add" /\ Returned(calls[k])

\* f[1] + ... + f[n]
RECURSIVE SumTo(_, _)
SumTo(f, n) == IF n = 0 THEN 0 ELSE f[n] + SumTo(f, n - 1)

\* Sum of the weights passed by the calls cs.
SumW(cs) == SumTo([k \in 1..Len(cs) |-> cs[k].w.x], Len(cs))

\* Sum of leaf i of value_obj times weight over the calls cs.
SumVW(cs, i) ==
  SumTo([k \in 1..Len(cs) |-> cs[k].value_obj.leaves[i] * cs[k].w.x], Len(cs))

\* Leaf i of the tree the accumulator was constructed with (0 without one).
InitLeaf(i) == IF ctor.obj.none THEN 0 ELSE Construct(ctor).accumulator.leaves[i]

\* The state after the adds cs, made in this order on the accumulator self.
RECURSIVE RunAdds(_, _)
RunAdds(self, cs) ==
  IF cs = <<>> THEN self
  ELSE LET r == MCA_add(self, Head(cs).value_obj, Head(cs).w)
       IN  RunAdds(Self(r.accumulator, r.weight), Tail(cs))

\* The exceptions of the adds cs, made in this order on the accumulator self.
RECURSIVE RunExcs(_, _)
RunExcs(self, cs) ==
  IF cs = <<>> THEN <<>>
  ELSE LET r == MCA_add(self, Head(cs).value_obj, Head(cs).w)
       IN  <<r.exc>> \o RunExcs(Self(r.accumulator, r.weight), Tail(cs))

Orders(n) ==
  {p \in [1..n -> 1..n] : \A a, b \in 1..n : p[a] = p[b] => a = b}

-----------------------------------------------------------------------------
\* C1: after n adds that all returned, accumulator is the sum of
\* value_obj_i * weight_i (on top of the tree it was constructed with) and
\* weight is the constructor's weight plus the sum of the weight_i, also when
\* the accumulator was None at the first add.
C1_NetEffect ==
  (OnlyAddsReturned /\ Len(calls) > 0) =>
    /\ ~accumulator.none
    /\ Len(accumulator.leaves) = Len(calls[1].value_obj.leaves)
    /\ \A i \in DOMAIN accumulator.leaves :
         accumulator.leaves[i] = InitLeaf(i) + SumVW(calls, i)
    /\ ~weight.none
    /\ weight.x = ctor.seed.x + SumW(calls)

\* C2: an add that raises one of its three errors leaves accumulator and
\* weight as they were before the call.
C2_NoPartialMutation ==
  [][(Called("add") /\ LastCall'.exc \in {"ValueError: weight type",
                                          "ValueError: weight shape",
                                          "ValueError: empty value_obj",
                                          "ValueError: non-empty value_obj"})
       => (accumulator' = accumulator /\ weight' = weight)]_vars

\* C3: on a fresh accumulator (empty() or zeros_like()), after adds of
\* non-empty trees with non-zero total weight, value is
\* (sum of v_i * w_i) / (sum of w_i), and the adds made in any other order
\* give the same value.
C3_WeightedMean ==
  (/\ ctor.name \in {"empty", "zeros_like"}
   /\ OnlyAddsReturned /\ Len(calls) > 0
   /\ \A k \in 1..Len(calls) : ~TreeIsEmpty(calls[k].value_obj)
   /\ SumW(calls) # 0)
  =>
    /\ MCA_value(Self(accumulator, weight)).exc = ""
    /\ \A i \in DOMAIN accumulator.leaves :
         MCA_value(Self(accumulator, weight)).ret.leaves[i]
           = Div(SumVW(calls, i), SumW(calls))
    /\ \A p \in Orders(Len(calls)) :
         MCA_value(RunAdds(Construct(ctor), [k \in 1..Len(calls) |-> calls[p[k]]])).ret
           = MCA_value(Self(accumulator, weight)).ret

\* C4: after add, value_and_clear and further adds, every add after the
\* clear ends as on a fresh accumulator given only those adds, and
\* accumulator, weight and value are those of that fresh accumulator.
C4_NoLeakAcrossClear ==
  \A j \in 2..(Len(calls) - 1) :
    (/\ ctor.name = "empty"
     /\ calls[j - 1].op = "add" /\ Returned(calls[j - 1])
     /\ calls[j].op = "value_and_clear" /\ Returned(calls[j])
     /\ \A k \in (j + 1)..Len(calls) : calls[k].op = "add")
    =>
      LET after == SubSeq(calls, j + 1, Len(calls))
          fresh == RunAdds(MCA_empty, after)
      IN  /\ [k \in 1..Len(after) |-> after[k].exc] = RunExcs(MCA_empty, after)
          /\ Returned(calls[j + 1])
          /\ accumulator = fresh.accumulator
          /\ weight = fresh.weight
          /\ MCA_value(Self(accumulator, weight)) = MCA_value(fresh)

\* C5: in every reachable state weight is a number, also when accumulator
\* is None.
C5_WeightDefined == ~weight.none

\* C6: on a started accumulator, add raises the empty/non-empty mismatch
\* error exactly when value_obj and accumulator differ in emptiness, leaving
\* accumulator and weight unchanged, and returns otherwise.
C6_EmptinessMismatch ==
  [][(Called("add") /\ ~accumulator.none) =>
       LET mismatch == TreeIsEmpty(LastCall'.value_obj) # TreeIsEmpty(accumulator)
       IN  /\ mismatch <=> LastCall'.exc \in {"ValueError: empty value_obj",
                                              "ValueError: non-empty value_obj"}
           /\ TreeIsEmpty(LastCall'.value_obj) /\ ~TreeIsEmpty(accumulator)
                => LastCall'.exc = "ValueError: empty value_obj"
           /\ mismatch => (accumulator' = accumulator /\ weight' = weight)
           /\ ~mismatch => Returned(LastCall')]_vars

-----------------------------------------------------------------------------
\* The moving average as the object state of the operators.
Average == [raw_value |-> raw_value, weight |-> wma_weight]

\* Every update so far passed the value of the last call and returned.
ConstantInput ==
  \A k \in 1..Len(calls) :
    calls[k].op = "update" =>
      (calls[k].value_obj = LastCall.value_obj /\ Returned(calls[k]))

\* C7: an update(value, m, w) that returns sets weight to weight * m + w and
\* every leaf of raw_value to raw_value * m + value * w, both from the state
\* before the call; and when every update since the zero construction passed
\* the same value v, value is v after each update with w # 0.
C7_Update ==
  [][(Called("update") /\ Returned(LastCall')) =>
       /\ wma_weight' = wma_weight * LastCall'.m + LastCall'.w.x
       /\ DOMAIN raw_value'.leaves = DOMAIN raw_value.leaves
       /\ \A i \in DOMAIN raw_value.leaves :
            raw_value'.leaves[i]
              = raw_value.leaves[i] * LastCall'.m
                  + LastCall'.value_obj.leaves[i] * LastCall'.w.x
       /\ (ConstantInput' /\ LastCall'.w.x # 0)
            => WMA_value(Average)' = TreeNum(LastCall'.value_obj)]_vars

\* C7 happens: on an average built by zero([]), two updates with the same
\* value, the second with a decay other than 0 and 1 on a non-zero weight,
\* after which value is that value.
C7_Witness ==
  /\ Len(calls) = 2 /\ Len(raw_value.leaves) = 1
  /\ \A k \in 1..2 : calls[k].op = "update" /\ Returned(calls[k]) /\ calls[k].w.x # 0
  /\ calls[1].value_obj = calls[2].value_obj
  /\ calls[2].m = 2
  /\ wma_weight = calls[1].w.x * 2 + calls[2].w.x
  /\ WMA_value(Average) = TreeNum(calls[2].value_obj)

\* C8: update changes raw_value and weight together: a call that returns
\* has changed both, and a call that raises has changed neither.
C8_AtomicUpdate ==
  [][Called("update") =>
       IF Returned(LastCall')
         THEN /\ wma_weight' = wma_weight * LastCall'.m + LastCall'.w.x
              /\ \A i \in DOMAIN raw_value.leaves :
                   raw_value'.leaves[i]
                     = raw_value.leaves[i] * LastCall'.m
                         + LastCall'.value_obj.leaves[i] * LastCall'.w.x
         ELSE raw_value' = raw_value /\ wma_weight' = wma_weight]_vars

\* C9: after every step of update(v, 1, w) on a zero-constructed average and
\* add(v, w) on a fresh accumulator, raw_value equals accumulator, the two
\* weights are equal and the two values are equal.
C9_AverageIsAccumulator ==
  Len(calls) > 0 =>
    /\ Returned(LastCall)
    /\ raw_value = accumulator
    /\ ~weight.none /\ wma_weight = weight.x
    /\ WMA_value(Average) = MCA_value(Self(accumulator, weight)).ret

\* C10 as stated: after an update(v, 0, w) that returns, value is v, whatever
\* the state before.
C10_DiscardsHistory ==
  [][(Called("update") /\ Returned(LastCall') /\ LastCall'.m = 0)
       => WMA_value(Average)' = TreeNum(LastCall'.value_obj)]_vars

\* C10 amended: after an update(v, 0, w) with w # 0 that returns, value is v,
\* whatever the state before.
C10_DiscardsHistoryNonZero ==
  [][(Called("update") /\ Returned(LastCall') /\ LastCall'.m = 0
        /\ LastCall'.w.x # 0)
       => WMA_value(Average)' = TreeNum(LastCall'.value_obj)]_vars

\* C10 happens: an update with another value and a non-zero weight, then an
\* update(v, 0, w) with w # 0, after which value is v.
C10_Witness ==
  /\ Len(calls) = 2
  /\ \A k \in 1..2 : calls[k].op = "update" /\ Returned(calls[k]) /\ calls[k].w.x # 0
  /\ calls[1].value_obj # calls[2].value_obj
  /\ calls[2].m = 0
  /\ WMA_value(Average) = TreeNum(calls[2].value_obj)

-----------------------------------------------------------------------------
\* This step is a read: a call of value or of value_and_clear.
CalledRead == Called("value") \/ Called("value_and_clear")

\* C11: in multi-device mode a read of a non-empty accumulator returns, on
\* every replica, the sum over the replicas of accumulator divided by the sum
\* over the replicas of weight (the quotient of the two cross-replica means).
C11_ReplicaMean ==
  [][(CalledRead /\ multi_device /\ ~TreeIsEmpty(accumulator)) =>
       /\ Returned(LastCall')
       /\ DOMAIN LastCall'.ret.leaves = DOMAIN accumulator.leaves
       /\ \A i \in DOMAIN accumulator.leaves, d \in Devices :
            LastCall'.ret.leaves[i][d]
              = Div(SumOver(accumulator.leaves[i], Devices),
                    SumOver(weight.x, Devices))]_vars

\* C12: a call of value leaves accumulator, weight and multi_device unchanged
\* in every state and in both modes, and a second read made right after it
\* ends as this one did: the same tree returned, or the same exception.
C12_ValueNonDestructive ==
  [][Called("value") =>
       /\ accumulator' = accumulator
       /\ weight' = weight
       /\ multi_device' = multi_device
       /\ MCA_value(This)'.ret = LastCall'.ret
       /\ MCA_value(This)'.exc = LastCall'.exc]_vars

\* C12 happens: after an add that returned, two reads in a row of a non-empty
\* multi-device accumulator return the same tree, and the state is still the
\* one the add left.
C12_Witness ==
  /\ Len(calls) = 3 /\ multi_device
  /\ calls[1].op = "add" /\ Returned(calls[1])
  /\ calls[2].op = "value" /\ Returned(calls[2])
  /\ calls[3].op = "value" /\ Returned(calls[3])
  /\ ~TreeIsEmpty(calls[3].ret)
  /\ calls[2].ret = calls[3].ret
  /\ ~TreeIsEmpty(accumulator) /\ ~weight.none

\* C13: value_and_clear ends as value would in the state before the call (the
\* same tree returned) and leaves the unstarted sentinel: accumulator and
\* weight None; clear leaves that same state from every state and returns;
\* neither changes multi_device.
C13_ValueAndClear ==
  [][/\ Called("value_and_clear") =>
          /\ LastCall'.ret = MCA_value(This).ret
          /\ LastCall'.exc = MCA_value(This).exc
          /\ accumulator'.none /\ weight'.none
          /\ multi_device' = multi_device
     /\ Called("clear") =>
          /\ Returned(LastCall')
          /\ accumulator'.none /\ weight'.none
          /\ multi_device' = multi_device]_vars

\* Replica d's part of a multi-device instance.
Replica(self, d) == Self(SliceTree(self.accumulator, d), SliceWeight(self.weight, d))

\* An add leaves on every replica what add leaves on that replica's slice of
\* the state and of the arguments, whatever the arguments on the other
\* replicas are, and makes no synchronisation call.
AddIsLocal ==
  Called("add") =>
    /\ syncs' = syncs
    /\ \A d \in Devices :
         /\ Replica(This', d).accumulator
              = MCA_add(Replica(This, d), SliceTree(LastCall'.value_obj, d),
                        SliceArg(LastCall'.w, d)).accumulator
         /\ Replica(This', d).weight
              = MCA_add(Replica(This, d), SliceTree(LastCall'.value_obj, d),
                        SliceArg(LastCall'.w, d)).weight
         /\ \A v \in ValueObjsMD, k \in DOMAIN WeightsMD :
              (/\ SliceTree(v, d) = SliceTree(LastCall'.value_obj, d)
               /\ SliceArg(WeightsMD[k], d) = SliceArg(LastCall'.w, d))
              => Replica(MCA_add_multi_device(This, v, WeightsMD[k]), d)
                   = Replica(This', d)

C15_FirstAddWeight ==
  [][(Called("add") /\ accumulator.none) =>
       LET w == LastCall'.w
       IN  IF w.kind \in CHEX_SCALAR_TYPES
             THEN /\ Returned(LastCall')
                  /\ ~weight'.none
                  /\ weight'.rank = weight.rank
                  /\ weight'.x = w.x
           ELSE IF w.kind # "jax.Array"
             THEN LastCall'.exc = "ValueError: weight type"
           ELSE IF w.rank # weight.rank
             THEN LastCall'.exc = "ValueError: weight shape"
           ELSE /\ Returned(LastCall')
                /\ weight' = ArrayWeight(w.dt, w.rank, w.x)]_vars

\* The weight after the call is the weight before plus the weight passed, on
\* every replica.
WeightAdded ==
  /\ ~weight.none /\ ~weight'.none
  /\ IF multi_device
       THEN \A d \in Devices : weight'.x[d] = weight.x[d] + SliceArg(LastCall'.w, d).x
       ELSE weight'.x = weight.x + LastCall'.w.x

\* C16: on a started accumulator whose tree is structurally empty, every add
\* of an empty tree returns, adds its weight to weight and leaves accumulator
\* the same empty tree; and every read returns that empty tree, whatever the
\* weight, without a call of a sync_and_divide_value function.
C16_EmptyTree ==
  [][(~accumulator.none /\ TreeIsEmpty(accumulator)) =>
       /\ (Called("add") /\ TreeIsEmpty(LastCall'.value_obj)) =>
            /\ Returned(LastCall')
            /\ accumulator' = accumulator
            /\ WeightAdded
       /\ CalledRead =>
            /\ Returned(LastCall')
            /\ LastCall'.ret = accumulator
            /\ syncs' = syncs]_vars

\* The instances a and b of one class have the same state.
SameState(a, b) ==
  IF IsMCA(a)
    THEN /\ a.multi_device = b.multi_device
         /\ a.accumulator = b.accumulator
         /\ a.weight.none = b.weight.none
         /\ ~a.weight.none => a.weight = b.weight
    ELSE a = b

\* C17: copy returns a new instance with the accumulator (raw_value), the
\* weight and the multi_device flag of the original, and leaves the original
\* as it was; afterwards every call of add, update, clear or value_and_clear on
\* the copy leaves the original as it was, and every such call on the
\* original leaves the copy as it was.
C17_Copy ==
  [][/\ Called("copy") =>
          /\ cp' \in DOMAIN heap' /\ cp' # 1
          /\ SameState(heap'[cp'], heap[1])
          /\ SameState(heap'[1], heap[1])
     /\ (cp # 0 /\ \E op \in {"add", "update", "clear", "value_and_clear"} : Called(op)) =>
          /\ LastCall'.on = cp => SameState(heap'[1], heap[1])
          /\ LastCall'.on = 1 => SameState(heap'[cp], heap[cp])]_vars

\* C17 happens: an add on the original that returned, a copy, then a clear on
\* the copy: the copy is unstarted and the original still holds what it
\* accumulated.
C17_Witness ==
  /\ Len(calls) = 3 /\ cp = 2
  /\ calls[1].op = "add" /\ Returned(calls[1])
  /\ calls[2].op = "copy"
  /\ calls[3].op = "clear" /\ calls[3].on = cp
  /\ heap[cp].accumulator.none /\ heap[cp].weight.none
  /\ ~TreeIsEmpty(heap[1].accumulator) /\ ~heap[1].weight.none

\* The accumulator was built by zeros_like(ref, False) for a non-empty ref and
\* the only call made since is a read of value.
ZerosLikeThenValue ==
  /\ ctor.name = "zeros_like" /\ ~TreeIsEmpty(ctor.obj) /\ ~multi_device
  /\ Len(calls) = 1 /\ calls[1].op = "value"

\* The accumulator is started, with a tree of zeros like ref and weight zero.
StartedAtZero ==
  /\ ~accumulator.none
  /\ accumulator = TreeScale(ctor.obj, 0)
  /\ ~weight.none /\ weight.x = 0

\* C18 as stated: an accumulator built by zeros_like(ref, False) for a
\* non-empty ref is started with a zero tree and weight zero, and a read of
\* value made before any add returns a tree of zeros like ref.
C18_ZerosLikeValue ==
  ZerosLikeThenValue =>
    /\ StartedAtZero
    /\ Returned(calls[1])
    /\ calls[1].ret = TreeNum(TreeScale(ctor.obj, 0))

\* C18 amended: such an accumulator is started with a zero tree and weight
\* zero, and a read of value made before any add returns a tree like ref
\* whose every leaf is 0/0 (NaN).
C18_ZerosLikeValueNaN ==
  ZerosLikeThenValue =>
    /\ StartedAtZero
    /\ Returned(calls[1])
    /\ DOMAIN calls[1].ret.leaves = DOMAIN ctor.obj.leaves
    /\ \A i \in DOMAIN ctor.obj.leaves : calls[1].ret.leaves[i] = [n |-> 0, d |-> 0]

\* C18 happens: zeros_like(ref, False) for a ref with a leaf, then value, which
\* returned a tree with a leaf.
C18_Witness ==
  /\ ZerosLikeThenValue
  /\ Returned(calls[1])
  /\ Len(calls[1].ret.leaves) = 1

\* C19: in both modes a read (value or value_and_clear) of an unstarted
\* accumulator returns None, does not raise and makes no call of a
\* sync_and_divide_value function, whatever the weight is.
C19_UnstartedRead ==
  [][(CalledRead /\ accumulator.none) =>
       /\ Returned(LastCall')
       /\ LastCall'.ret = NoneTree
       /\ syncs' = syncs]_vars

\* C19 happens: a multi-device accumulator is cleared and then read: the read
\* returned None, with weight None and no synchronisation made.
C19_Witness ==
  /\ Len(calls) = 2 /\ multi_device
  /\ calls[1].op = "clear"
  /\ calls[2].op = "value" /\ Returned(calls[2]) /\ calls[2].ret = NoneTree
  /\ accumulator.none /\ weight.none
  /\ syncs = 0

\* The calls made since the last clear or value_and_clear that returned (all
\* the calls if there was none).
SinceReset ==
  LET resets == {k \in 1..Len(calls) :
                   calls[k].op \in {"clear", "value_and_clear"} /\ Returned(calls[k])}
      last == IF resets = {} THEN 0 ELSE CHOOSE k \in resets : \A j \in resets : j <= k
  IN  SubSeq(calls, last + 1, Len(calls))

\* On an accumulator constructed by empty(), accumulator is None exactly when
\* no add has returned since the last reset.
UnstartedIffNoAdd ==
  ctor.name = "empty" =>
    (accumulator.none <=>
       ~\E k \in 1..Len(SinceReset) :
           SinceReset[k].op = "add" /\ Returned(SinceReset[k]))

\* A call of add or value on a started accumulator leaves it started.
StartedStays ==
  (~accumulator.none /\ (Called("add") \/ Called("value"))) => ~accumulator'.none

\* C20: the accumulator is unstarted (None) exactly when no add has returned
\* since empty() or since the last clear / value_and_clear; and once started,
\* add and value leave it started.
C20_Lifecycle == []UnstartedIffNoAdd /\ [][StartedStays]_vars

====
